---------------------------- MODULE Spec2Model ----------------------------
(***************************************************************************)
(* Model of DiabeticPatientMonitor (src/Dia.py): one monitoring session,   *)
(* its in-memory data, its SQLite tables and the e-mail channel.           *)
(*                                                                         *)
(* Glucose values are integers counting hundredths of a mg/dL, so that     *)
(* 70 mg/dL is 7000 and round(x, 1) is a rounding to a multiple of 10.     *)
(* Arithmetic is exact: the binary floating-point error of the Python      *)
(* build (an ulp in last_reading + 15, or in the regression) is not        *)
(* modelled.                                                               *)
(***************************************************************************)
EXTENDS Integers, Sequences, FiniteSets, TLC

\* ------------------------------------------------------------------ bounds

\* Session specification: calls to datetime.now() per session.
MaxClock == 3
\* Glucose specification: readings logged per session.
MaxReadings == 3

\* --------------------------------------------------------------- utilities

Last(s) == s[Len(s)]

RECURSIVE SumSeq(_)
SumSeq(s) == IF s = <<>> THEN 0 ELSE Head(s) + SumSeq(Tail(s))

Max2(a, b) == IF a >= b THEN a ELSE b
Min2(a, b) == IF a <= b THEN a ELSE b

\* ------------------------------------------------------------ configuration

\* load_config's fallback when config.json is missing.
DefaultConfig ==
    [ hypoglycemia           |-> 7000,
      hyperglycemia          |-> 18000,
      severe_hyperglycemia   |-> 25000,
      hypo_symptoms_severity |-> 7,
      window_size            |-> 10,
      email                  |-> "disabled" ]

\* A config.json with thresholds close together, a short window and a
\* working e-mail account.
CompactConfig ==
    [ hypoglycemia           |-> 7000,
      hyperglycemia          |-> 7500,
      severe_hyperglycemia   |-> 8500,
      hypo_symptoms_severity |-> 7,
      window_size            |-> 2,
      email                  |-> "configured" ]

\* A config.json whose thresholds are out of order and whose e-mail is
\* enabled without a sender address.
DisorderedConfig ==
    [ hypoglycemia           |-> 20000,
      hyperglycemia          |-> 7000,
      severe_hyperglycemia   |-> 6000,
      hypo_symptoms_severity |-> 6,
      window_size            |-> 2,
      email                  |-> "unconfigured" ]

\* load_config returns whatever the JSON file holds, or DefaultConfig.
SessionConfigs == {DefaultConfig, CompactConfig, DisorderedConfig}

GlucoseConfigs ==
    { [CompactConfig EXCEPT !.window_size = w] : w \in {2, 3} }
    \cup {DefaultConfig}

\* The threshold keys the handlers read from config['alert_thresholds'].
RequiredThresholds ==
    { "hypoglycemia", "hyperglycemia", "severe_hyperglycemia",
      "hypo_symptoms_severity" }

\* config[key] exists; reading a key that does not raises KeyError.
Has(cfg, key) == key \in DOMAIN cfg

\* A config.json that lacks one key.
Without(cfg, key) == [k \in DOMAIN cfg \ {key} |-> cfg[k]]

\* load_config returns the file's content as it is, so a config.json that
\* lacks a threshold is a configuration too.
IncompleteConfigs ==
    { Without(cfg, key) :
        cfg \in {DefaultConfig, CompactConfig}, key \in RequiredThresholds }

Ordered(cfg) ==
    /\ cfg.hypoglycemia < cfg.hyperglycemia
    /\ cfg.hyperglycemia < cfg.severe_hyperglycemia

\* ----------------------------------------------------------- input domains

\* Draws of random.normalvariate, before the clamp, in hundredths of mg/dL.
SessionDraws == {6990, 12000, 20000, 25010}
GlucoseDraws == {4200, 6990, 7000, 7500, 7504, 7510, 8000, 8500, 8510}

\* The GUI calls log_glucose_measurement() with its default context.
Contexts == {"random"}

\* Severities a caller may pass to log_symptoms (no check is made).
Severities == {0, 6, 7, 11}
SymptomTypes == {"hypo", "hyper"}

\* predict_glucose_trend is only ever called with its default hours=4.
DefaultHours == 4


\* --------------------------------------------------- measurement simulator

\* max(50, min(400, x)): the draw clamped to 50..400 mg/dL.
Clamp(x) == Max2(5000, Min2(40000, x))

\* round(glucose_value, 1): the nearest multiple of a tenth. A draw that
\* lies halfway between two tenths goes to either, as its binary
\* representation decides.
Round1(x) ==
    LET lo == (x \div 10) * 10
        r  == x % 10
    IN  IF r < 5 THEN {lo}
        ELSE IF r > 5 THEN {lo + 10}
        ELSE {lo, lo + 10}

\* The trend of a new glucose_value against the last recorded reading:
\* StrongUp is "↑↑", Up "↑", StrongDown "↓↓", Down "↓" and Stable "→".
TrendNonStrict(glucose_value, readings) ==
    IF Len(readings) > 0
    THEN LET last_reading == Last(readings)
         IN  IF glucose_value >= last_reading + 1500 THEN "StrongUp"
             ELSE IF glucose_value >= last_reading + 500 THEN "Up"
             ELSE IF glucose_value <= last_reading - 1500 THEN "StrongDown"
             ELSE IF glucose_value <= last_reading - 500 THEN "Down"
             ELSE "Stable"
    ELSE "Stable"

Trend(glucose_value, readings) ==
    IF Len(readings) > 0
    THEN LET last_reading == Last(readings)
         IN  IF glucose_value > last_reading + 1500 THEN "StrongUp"
             ELSE IF glucose_value > last_reading + 500 THEN "Up"
             ELSE IF glucose_value < last_reading - 1500 THEN "StrongDown"
             ELSE IF glucose_value < last_reading - 500 THEN "Down"
             ELSE "Stable"
    ELSE "Stable"

\* ------------------------------------------------------------ alert engine

\* The alert_type strings, letter by letter, for Python's substring test.
Spelling(alert_type) ==
    CASE alert_type = "hypoglycemia" ->
           <<"h","y","p","o","g","l","y","c","e","m","i","a">>
      [] alert_type = "hyperglycemia" ->
           <<"h","y","p","e","r","g","l","y","c","e","m","i","a">>
      [] alert_type = "severe_hyperglycemia" ->
           <<"s","e","v","e","r","e","_","h","y","p","e","r","g","l","y",
             "c","e","m","i","a">>
      [] alert_type = "hypo_symptoms" ->
           <<"h","y","p","o","_","s","y","m","p","t","o","m","s">>
      [] alert_type = "hyper_symptoms" ->
           <<"h","y","p","e","r","_","s","y","m","p","t","o","m","s">>

\* sub in s, for Python strings.
Contains(s, sub) ==
    \E i \in 1..(Len(s) - Len(sub) + 1) : SubSeq(s, i, i + Len(sub) - 1) = sub

\* send_alert's severity of an alert_type.
Severity(alert_type) ==
    IF \/ alert_type = "severe_hyperglycemia"
       \/ Contains(Spelling(alert_type), <<"h","y","p","o">>)
    THEN "high"
    ELSE "medium"

\* check_glucose_alerts: the send_alert calls it makes for a reading, in
\* order. The message carries the reading.
CheckGlucoseAlertsInclusive(glucose_value, thresholds) ==
    IF glucose_value < thresholds.hypoglycemia
    THEN << <<"hypoglycemia", glucose_value>> >>
    ELSE IF glucose_value >= thresholds.severe_hyperglycemia
    THEN << <<"severe_hyperglycemia", glucose_value>> >>
    ELSE IF glucose_value > thresholds.hyperglycemia
    THEN << <<"hyperglycemia", glucose_value>> >>
    ELSE <<>>

CheckGlucoseAlertsIndependent(glucose_value, thresholds) ==
    (IF glucose_value < thresholds.hypoglycemia
     THEN << <<"hypoglycemia", glucose_value>> >> ELSE <<>>)
    \o (IF glucose_value > thresholds.severe_hyperglycemia
        THEN << <<"severe_hyperglycemia", glucose_value>> >> ELSE <<>>)
    \o (IF glucose_value > thresholds.hyperglycemia
        THEN << <<"hyperglycemia", glucose_value>> >> ELSE <<>>)

CheckGlucoseAlerts(glucose_value, thresholds) ==
    IF glucose_value < thresholds.hypoglycemia
    THEN << <<"hypoglycemia", glucose_value>> >>
    ELSE IF glucose_value > thresholds.severe_hyperglycemia
    THEN << <<"severe_hyperglycemia", glucose_value>> >>
    ELSE IF glucose_value > thresholds.hyperglycemia
    THEN << <<"hyperglycemia", glucose_value>> >>
    ELSE <<>>

\* log_symptoms: the send_alert calls it makes for a report, in order. The
\* message carries the severity. Both kinds use hypo_symptoms_severity.
SymptomAlertsStrict(symptom_type, severity, thresholds) ==
    IF symptom_type = "hypo"
    THEN IF severity > thresholds.hypo_symptoms_severity
         THEN << <<"hypo_symptoms", severity>> >> ELSE <<>>
    ELSE IF severity > thresholds.hypo_symptoms_severity
         THEN << <<"hyper_symptoms", severity>> >> ELSE <<>>

SymptomAlerts(symptom_type, severity, thresholds) ==
    IF symptom_type = "hypo"
    THEN IF severity >= thresholds.hypo_symptoms_severity
         THEN << <<"hypo_symptoms", severity>> >> ELSE <<>>
    ELSE IF severity >= thresholds.hypo_symptoms_severity
         THEN << <<"hyper_symptoms", severity>> >> ELSE <<>>

\* The state send_alert works on: the alerts table, the e-mails delivered,
\* the clock, and whether an INSERT has raised.
\* send_alert: one row in the alerts table, stamped with datetime.now(),
\* then the e-mail when enabled. A failed INSERT raises before the e-mail;
\* send_email_alert returns early without a sender address and swallows
\* every delivery error.
SendAlertPrepend(st, call, email, storageFails, mailFails) ==
    LET row == [ timestamp  |-> st.clock,
                 alert_type |-> call[1],
                 message    |-> call[2],
                 severity   |-> Severity(call[1]) ]
    IN  IF st.raised THEN st
        ELSE IF storageFails
        THEN [st EXCEPT !.clock = @ + 1, !.raised = TRUE]
        ELSE [ alerts |-> <<row>> \o st.alerts,
               sent   |-> IF email = "configured" /\ ~mailFails
                          THEN <<row>> \o st.sent ELSE st.sent,
               clock  |-> st.clock + 1,
               raised |-> FALSE ]

SendAlertMailRaises(st, call, email, storageFails, mailFails) ==
    LET row == [ timestamp  |-> st.clock,
                 alert_type |-> call[1],
                 message    |-> call[2],
                 severity   |-> Severity(call[1]) ]
    IN  IF st.raised THEN st
        ELSE IF storageFails
        THEN [st EXCEPT !.clock = @ + 1, !.raised = TRUE]
        ELSE [ alerts |-> Append(st.alerts, row),
               sent   |-> IF email = "configured" /\ ~mailFails
                          THEN Append(st.sent, row) ELSE st.sent,
               clock  |-> st.clock + 1,
               raised |-> email = "configured" /\ mailFails ]

SendAlert(st, call, email, storageFails, mailFails) ==
    LET row == [ timestamp  |-> st.clock,
                 alert_type |-> call[1],
                 message    |-> call[2],
                 severity   |-> Severity(call[1]) ]
    IN  IF st.raised THEN st
        ELSE IF storageFails
        THEN [st EXCEPT !.clock = @ + 1, !.raised = TRUE]
        ELSE [ alerts |-> Append(st.alerts, row),
               sent   |-> IF email = "configured" /\ ~mailFails
                          THEN Append(st.sent, row) ELSE st.sent,
               clock  |-> st.clock + 1,
               raised |-> FALSE ]

\* The calls of a handler, made one after the other.
RECURSIVE SendAlerts(_, _, _, _, _)
SendAlerts(st, calls, email, storageFails, mailFails) ==
    IF calls = <<>> THEN st
    ELSE SendAlerts(SendAlert(st, Head(calls), email, storageFails,
                              mailFails),
                    Tail(calls), email, storageFails, mailFails)

\* -------------------------------------------------------------- forecaster

\* glucose_data = blood_glucose[-window_size:]
WindowWhole(readings, window_size) == readings

Window(readings, window_size) ==
    SubSeq(readings, Len(readings) - window_size + 1, Len(readings))

\* LinearRegression().fit on x = 0..n-1, then predict on x = n..n+hours-1:
\* the least-squares line through the window, as exact fractions
\* <<numerator, denominator>> of hundredths of mg/dL. A window of one
\* reading has no slope and predicts that reading.
PredictionsFromLast(glucose_data, hours) ==
    LET n   == Len(glucose_data)
        Sx  == SumSeq([i \in 1..n |-> i - 1])
        Sxx == SumSeq([i \in 1..n |-> (i - 1) * (i - 1)])
        Sy  == SumSeq(glucose_data)
        Sxy == SumSeq([i \in 1..n |-> (i - 1) * glucose_data[i]])
        A   == n * Sxy - Sx * Sy
        D   == n * Sxx - Sx * Sx
    IN  [ k \in 1..hours |->
            IF D = 0 THEN <<Sy, n>>
            ELSE << A * (n + k - 2) * n + Sy * D - A * Sx, n * D >> ]

Predictions(glucose_data, hours) ==
    LET n   == Len(glucose_data)
        Sx  == SumSeq([i \in 1..n |-> i - 1])
        Sxx == SumSeq([i \in 1..n |-> (i - 1) * (i - 1)])
        Sy  == SumSeq(glucose_data)
        Sxy == SumSeq([i \in 1..n |-> (i - 1) * glucose_data[i]])
        A   == n * Sxy - Sx * Sy
        D   == n * Sxx - Sx * Sx
    IN  [ k \in 1..hours |->
            IF D = 0 THEN <<Sy, n>>
            ELSE << A * (n + k - 1) * n + Sy * D - A * Sx, n * D >> ]

\* {pred:.1f}: the fraction to the nearest tenth of a mg/dL (a half goes
\* up here), in hundredths.
Fmt1(pred) == 10 * ((2 * pred[1] + 10 * pred[2]) \div (20 * pred[2]))

\* The line the forecaster writes for step i+1, if any.
BreachLine(k, pred, thresholds) ==
    IF pred[1] < thresholds.hypoglycemia * pred[2]
    THEN [kind |-> "hypoglycemia", hours |-> k, pred |-> Fmt1(pred)]
    ELSE IF pred[1] > thresholds.severe_hyperglycemia * pred[2]
    THEN [kind |-> "severe_hyperglycemia", hours |-> k, pred |-> Fmt1(pred)]
    ELSE [kind |-> "none", hours |-> k, pred |-> Fmt1(pred)]

\* predict_glucose_trend's result: "insufficient" (not enough readings),
\* "alerts" with the lines joined in order, or "no_anomaly".
PredictGlucoseTrend(readings, cfg, hours) ==
    IF Len(readings) < cfg.window_size
    THEN [status |-> "insufficient", lines |-> <<>>]
    ELSE LET glucose_data == Window(readings, cfg.window_size)
             predictions  == Predictions(glucose_data, hours)
             all   == [ k \in 1..hours |->
                          BreachLine(k, predictions[k], cfg) ]
             lines == SelectSeq(all, LAMBDA l : l.kind # "none")
         IN  IF lines # <<>>
             THEN [status |-> "alerts", lines |-> lines]
             ELSE [status |-> "no_anomaly", lines |-> <<>>]

\* ------------------------------------------------------- report aggregator

RECURSIVE MinSeq(_)
MinSeq(s) == IF Len(s) = 1 THEN s[1] ELSE Min2(Head(s), MinSeq(Tail(s)))

RECURSIVE MaxSeq(_)
MaxSeq(s) == IF Len(s) = 1 THEN s[1] ELSE Max2(Head(s), MaxSeq(Tail(s)))

\* generate_diabetes_report over the rows of glucose_measurements whose
\* timestamp is not before the window's start. The mean is kept as
\* <<sum, count>>; the prediction is made on the in-memory readings with
\* the default horizon.
GenerateDiabetesReportExclusive(rows, readings, cfg, window_start) ==
    LET df     == SelectSeq(rows, LAMBDA r : r.timestamp >= window_start)
        values == [i \in 1..Len(df) |-> df[i].blood_glucose]
        below(t) == Len(SelectSeq(values, LAMBDA v : v < t))
        above(t) == Len(SelectSeq(values, LAMBDA v : v > t))
    IN  IF df = <<>>
        THEN [status |-> "no_data"]
        ELSE [ status                |-> "report",
               mean_glucose          |-> <<SumSeq(values), Len(values)>>,
               min_glucose           |-> MinSeq(values),
               max_glucose           |-> MaxSeq(values),
               hypo_episodes         |-> below(cfg.hypoglycemia),
               hyper_episodes        |-> above(cfg.hyperglycemia)
                                           - above(cfg.severe_hyperglycemia),
               severe_hyper_episodes |-> above(cfg.severe_hyperglycemia),
               prediction            |->
                   PredictGlucoseTrend(readings, cfg, DefaultHours) ]

GenerateDiabetesReport(rows, readings, cfg, window_start) ==
    LET df     == SelectSeq(rows, LAMBDA r : r.timestamp >= window_start)
        values == [i \in 1..Len(df) |-> df[i].blood_glucose]
        below(t) == Len(SelectSeq(values, LAMBDA v : v < t))
        above(t) == Len(SelectSeq(values, LAMBDA v : v > t))
    IN  IF df = <<>>
        THEN [status |-> "no_data"]
        ELSE [ status                |-> "report",
               mean_glucose          |-> <<SumSeq(values), Len(values)>>,
               min_glucose           |-> MinSeq(values),
               max_glucose           |-> MaxSeq(values),
               hypo_episodes         |-> below(cfg.hypoglycemia),
               hyper_episodes        |-> above(cfg.hyperglycemia),
               severe_hyper_episodes |-> above(cfg.severe_hyperglycemia),
               prediction            |->
                   PredictGlucoseTrend(readings, cfg, DefaultHours) ]

\* ------------------------------------------------------------------- state

VARIABLES
    config,                \* self.config
    clock,                 \* the next value of datetime.now()
    timestamp,             \* self.data['timestamp']
    blood_glucose,         \* self.data['blood_glucose']
    glucose_trend,         \* self.data['glucose_trend']
    insulin_dose,          \* self.data['insulin_dose']
    carbs_intake,          \* self.data['carbs_intake']
    hypo_symptoms,         \* self.data['hypo_symptoms']
    hyper_symptoms,        \* self.data['hyper_symptoms']
    glucose_measurements,  \* table glucose_measurements
    insulin_doses,         \* table insulin_doses
    meals,                 \* table meals
    alerts,                \* table alerts
    sent,                  \* the alert e-mails delivered, in order
    events,                \* history: the readings and reports taken in
    ret                    \* the last call and what its caller got

vars == << config, clock, timestamp, blood_glucose, glucose_trend,
           insulin_dose, carbs_intake, hypo_symptoms, hyper_symptoms,
           glucose_measurements, insulin_doses, meals, alerts, sent,
           events, ret >>

memory == << timestamp, blood_glucose, glucose_trend, insulin_dose,
             carbs_intake, hypo_symptoms, hyper_symptoms >>

tables == << glucose_measurements, insulin_doses, meals, alerts >>

\* __init__: empty data, and the tables setup_database creates in a new
\* database file.
InitWith(configs) ==
    /\ config \in configs
    /\ clock = 0
    /\ timestamp = <<>>
    /\ blood_glucose = <<>>
    /\ glucose_trend = <<>>
    /\ insulin_dose = <<>>
    /\ carbs_intake = <<>>
    /\ hypo_symptoms = <<>>
    /\ hyper_symptoms = <<>>
    /\ glucose_measurements = <<>>
    /\ insulin_doses = <<>>
    /\ meals = <<>>
    /\ alerts = <<>>
    /\ sent = <<>>
    /\ events = <<>>
    /\ ret = [op |-> "__init__", status |-> "ok"]

\* ---------------------------------------------------------------- handlers

\* check_glucose_alerts reads hypoglycemia, then severe_hyperglycemia, then
\* hyperglycemia, each only when the branches before it did not fire: the
\* first one missing raises KeyError.
CheckRaisesKeyError(glucose_value, thresholds) ==
    \/ ~Has(thresholds, "hypoglycemia")
    \/ /\ glucose_value >= thresholds.hypoglycemia
       /\ \/ ~Has(thresholds, "severe_hyperglycemia")
          \/ /\ glucose_value <= thresholds.severe_hyperglycemia
             /\ ~Has(thresholds, "hyperglycemia")

\* log_symptoms reads hypo_symptoms_severity in either branch.
SymptomsRaiseKeyError(thresholds) ==
    ~Has(thresholds, "hypo_symptoms_severity")

\* predict_glucose_trend reads hypoglycemia for every prediction, and
\* severe_hyperglycemia for those not below it.
PredictRaisesKeyError(readings, cfg, hours) ==
    /\ Len(readings) >= cfg.window_size
    /\ hours >= 1
    /\ \/ ~Has(cfg, "hypoglycemia")
       \/ /\ ~Has(cfg, "severe_hyperglycemia")
          /\ LET predictions ==
                     Predictions(Window(readings, cfg.window_size), hours)
             IN  \E k \in 1..hours :
                    predictions[k][1] >= cfg.hypoglycemia * predictions[k][2]

\* generate_diabetes_report reads the three glucose thresholds to count
\* the episodes, once there are rows to count.
ReportRaisesKeyError(rows, cfg, window_start) ==
    /\ SelectSeq(rows, LAMBDA r : r.timestamp >= window_start) # <<>>
    /\ \/ ~Has(cfg, "hypoglycemia")
       \/ ~Has(cfg, "hyperglycemia")
       \/ ~Has(cfg, "severe_hyperglycemia")

\* Units and carbohydrate grams a caller may log.
Units == {4}
Carbs == {45}

\* log_glucose_measurement(context). draw is what random.normalvariate
\* gives; storageFails, alertStorageFails and mailFails say whether the INSERT of
\* the measurement, the INSERT of the alert and the SMTP delivery fail.
\* The reading is appended in memory before the INSERT, and the alerts are
\* checked only after the commit; a threshold missing from the
\* configuration raises KeyError there.
log_glucose_measurement(draw, context, storageFails, alertStorageFails, mailFails) ==
    LET glucose_value == Clamp(draw)
        trend         == Trend(glucose_value, blood_glucose)
        current_time  == clock
    IN  \E value \in Round1(glucose_value) :
          LET st0 == [ alerts |-> alerts, sent |-> sent,
                       clock |-> clock + 1, raised |-> FALSE ]
              keyError == ~storageFails /\ CheckRaisesKeyError(value, config)
              st  == IF ~storageFails /\ ~keyError
                     THEN SendAlerts(st0, CheckGlucoseAlerts(value, config),
                                     config.email, alertStorageFails,
                                     mailFails)
                     ELSE st0
          IN  /\ timestamp' = Append(timestamp, current_time)
              /\ blood_glucose' = Append(blood_glucose, value)
              /\ glucose_trend' = Append(glucose_trend, trend)
              /\ glucose_measurements' =
                   IF ~storageFails
                   THEN Append(glucose_measurements,
                               [ timestamp           |-> current_time,
                                 blood_glucose       |-> value,
                                 measurement_context |-> context,
                                 glucose_trend       |-> trend ])
                   ELSE glucose_measurements
              /\ alerts' = st.alerts
              /\ sent' = st.sent
              /\ clock' = st.clock
              /\ events' = Append(events, [ kind  |-> "glucose",
                                            time  |-> current_time,
                                            value |-> value ])
              /\ ret' = [ op            |-> "log_glucose_measurement",
                          status        |-> IF keyError THEN "KeyError"
                                            ELSE IF ~storageFails /\ ~st.raised
                                            THEN "ok" ELSE "StorageError",
                          glucose_value |-> glucose_value,
                          out           |-> <<value, trend>> ]
              /\ UNCHANGED << config, insulin_dose, carbs_intake,
                              hypo_symptoms, hyper_symptoms, insulin_doses,
                              meals >>

\* log_insulin_dose(insulin_type, units, injection_site): the INSERT first,
\* the in-memory append after it.
log_insulin_dose(insulin_type, units, injection_site, storageFails) ==
    /\ clock' = clock + 1
    /\ IF ~storageFails
       THEN /\ insulin_doses' =
                 Append(insulin_doses, [ timestamp      |-> clock,
                                         insulin_type   |-> insulin_type,
                                         units          |-> units,
                                         injection_site |-> injection_site ])
            /\ insulin_dose' = Append(insulin_dose, units)
       ELSE UNCHANGED << insulin_doses, insulin_dose >>
    /\ ret' = [ op     |-> "log_insulin_dose",
                status |-> IF ~storageFails THEN "ok" ELSE "StorageError" ]
    /\ UNCHANGED << config, timestamp, blood_glucose, glucose_trend,
                    carbs_intake, hypo_symptoms, hyper_symptoms,
                    glucose_measurements, meals, alerts, sent, events >>

\* log_meal(carbs_grams, food_description): the impact carbs_grams / 10 is
\* kept as a fraction; the INSERT first, the in-memory append after it.
log_meal(carbs_grams, food_description, storageFails) ==
    /\ clock' = clock + 1
    /\ IF ~storageFails
       THEN /\ meals' =
                 Append(meals, [ timestamp        |-> clock,
                                 carbs_grams      |-> carbs_grams,
                                 food_description |-> food_description,
                                 estimated_glucose_impact |->
                                     <<carbs_grams, 10>> ])
            /\ carbs_intake' = Append(carbs_intake, carbs_grams)
       ELSE UNCHANGED << meals, carbs_intake >>
    /\ ret' = [ op     |-> "log_meal",
                status |-> IF ~storageFails THEN "ok" ELSE "StorageError" ]
    /\ UNCHANGED << config, timestamp, blood_glucose, glucose_trend,
                    insulin_dose, hypo_symptoms, hyper_symptoms,
                    glucose_measurements, insulin_doses, alerts, sent,
                    events >>

\* log_symptoms(symptom_type, severity): the severity is appended to the
\* list of its kind (every symptom_type but "hypo" counts as hyper), then
\* the alert is sent. No range check is made on severity; a missing
\* hypo_symptoms_severity raises KeyError after the append.
log_symptoms(symptom_type, severity, alertStorageFails, mailFails) ==
    LET current_time == clock
        st0 == [ alerts |-> alerts, sent |-> sent,
                 clock |-> clock + 1, raised |-> FALSE ]
        keyError == SymptomsRaiseKeyError(config)
        st  == IF keyError THEN st0
               ELSE SendAlerts(st0,
                               SymptomAlerts(symptom_type, severity, config),
                               config.email, alertStorageFails, mailFails)
    IN  /\ IF symptom_type = "hypo"
           THEN /\ hypo_symptoms' = Append(hypo_symptoms, severity)
                /\ UNCHANGED hyper_symptoms
           ELSE /\ hyper_symptoms' = Append(hyper_symptoms, severity)
                /\ UNCHANGED hypo_symptoms
        /\ alerts' = st.alerts
        /\ sent' = st.sent
        /\ clock' = st.clock
        /\ events' = Append(events, [ kind  |-> symptom_type,
                                      time  |-> current_time,
                                      value |-> severity ])
        /\ ret' = [ op           |-> "log_symptoms",
                    status       |-> IF keyError THEN "KeyError"
                                     ELSE IF st.raised
                                     THEN "StorageError" ELSE "ok",
                    symptom_type |-> symptom_type,
                    severity     |-> severity ]
        /\ UNCHANGED << config, timestamp, blood_glucose, glucose_trend,
                        insulin_dose, carbs_intake, glucose_measurements,
                        insulin_doses, meals >>

\* predict_glucose_trend(hours): reads the in-memory readings only.
predict_glucose_trend(hours) ==
    /\ ret' = IF PredictRaisesKeyError(blood_glucose, config, hours)
              THEN [ op     |-> "predict_glucose_trend",
                     status |-> "KeyError",
                     hours  |-> hours ]
              ELSE [ op     |-> "predict_glucose_trend",
                     status |-> "ok",
                     hours  |-> hours,
                     out    |-> PredictGlucoseTrend(blood_glucose, config,
                                                    hours) ]
    /\ UNCHANGED << config, clock, memory, tables, sent, events >>

\* generate_diabetes_report(hours): reads the glucose_measurements table
\* from window_start (now minus hours) on, and the in-memory readings.
generate_diabetes_report(window_start) ==
    /\ ret' = IF ReportRaisesKeyError(glucose_measurements, config,
                                      window_start)
              THEN [ op     |-> "generate_diabetes_report",
                     status |-> "KeyError" ]
              ELSE [ op     |-> "generate_diabetes_report",
                     status |-> "ok",
                     out    |-> GenerateDiabetesReport(glucose_measurements,
                                    blood_glucose, config, window_start) ]
    /\ UNCHANGED << config, clock, memory, tables, sent, events >>

\* ------------------------------------------------------------ specifications

\* A session in which every handler may be called.
Init == InitWith(SessionConfigs)

Measure ==
    /\ clock < MaxClock
    /\ \E draw \in SessionDraws, context \in Contexts,
          storageFails \in BOOLEAN, alertStorageFails \in BOOLEAN,
          mailFails \in BOOLEAN :
          log_glucose_measurement(draw, context, storageFails,
                                  alertStorageFails, mailFails)

Insulin ==
    /\ clock < MaxClock
    /\ \E units \in Units, storageFails \in BOOLEAN :
          log_insulin_dose("Rapide", units, "abdomen", storageFails)

Meal ==
    /\ clock < MaxClock
    /\ \E carbs_grams \in Carbs, storageFails \in BOOLEAN :
          log_meal(carbs_grams, "", storageFails)

Symptoms ==
    /\ clock < MaxClock
    /\ \E symptom_type \in SymptomTypes, severity \in Severities,
          alertStorageFails \in BOOLEAN, mailFails \in BOOLEAN :
          log_symptoms(symptom_type, severity, alertStorageFails, mailFails)

Predict == predict_glucose_trend(DefaultHours)

Report == \E window_start \in 0..clock : generate_diabetes_report(window_start)

Next == Measure \/ Insulin \/ Meal \/ Symptoms \/ Predict \/ Report

Spec == Init /\ [][Next]_vars

\* A session of glucose readings and forecasts, on a finer set of draws.
\* Either INSERT may fail; the e-mail, which the readings and forecasts do
\* not depend on, is delivered.
InitGlucose == InitWith(GlucoseConfigs)

MeasureFine ==
    /\ Len(blood_glucose) < MaxReadings
    /\ \E draw \in GlucoseDraws, context \in Contexts,
          storageFails \in BOOLEAN, alertStorageFails \in BOOLEAN :
          log_glucose_measurement(draw, context, storageFails,
                                  alertStorageFails, FALSE)

NextGlucose == MeasureFine \/ Predict

SpecGlucose == InitGlucose /\ [][NextGlucose]_vars

\* A session started on a config.json that lacks a threshold.
InitIncomplete == InitWith(IncompleteConfigs)

SpecStartup == InitIncomplete /\ [][Next]_vars

\* A session of readings and reports in which every INSERT and every
\* delivery succeeds.
MeasureStored ==
    /\ Len(blood_glucose) < MaxReadings
    /\ \E draw \in GlucoseDraws, context \in Contexts :
          log_glucose_measurement(draw, context, FALSE, FALSE, FALSE)

NextReport == MeasureStored \/ Report

SpecReport == InitGlucose /\ [][NextReport]_vars

\* ------------------------------------------------------------------ claims

GlucoseAlertTypes == {"hypoglycemia", "hyperglycemia", "severe_hyperglycemia"}

\* The alert types of the rows written since time t, in order.
TypesSince(t) ==
    LET new == SelectSeq(alerts, LAMBDA a : a.timestamp > t)
    IN  [i \in 1..Len(new) |-> new[i].alert_type]

\* The last window_size readings, taken one by one.
LastN(readings, n) == [i \in 1..n |-> readings[Len(readings) - n + i]]

\* C1: with hypo < hyper < severeHyper, a reading whose alert check ran to
\* its end raised Hypoglycemia iff v < hypo, SevereHyperglycemia iff
\* v > severeHyper, Hyperglycemia iff hyper < v <= severeHyper, and nothing
\* iff hypo <= v <= hyper.
C1_GlucoseAlertClasses ==
    (ret.op = "log_glucose_measurement" /\ ret.status = "ok"
        /\ Ordered(config)) =>
    LET v     == Last(blood_glucose)
        raised == TypesSince(Last(timestamp))
    IN  /\ (v < config.hypoglycemia) <=> (raised = <<"hypoglycemia">>)
        /\ (v > config.severe_hyperglycemia)
             <=> (raised = <<"severe_hyperglycemia">>)
        /\ (config.hyperglycemia < v /\ v <= config.severe_hyperglycemia)
             <=> (raised = <<"hyperglycemia">>)
        /\ (config.hypoglycemia <= v /\ v <= config.hyperglycemia)
             <=> (raised = <<>>)

\* A reading exactly at severeHyper raised Hyperglycemia.
C1_Witness ==
    /\ ret.op = "log_glucose_measurement" /\ ret.status = "ok"
    /\ Ordered(config)
    /\ Last(blood_glucose) = config.severe_hyperglycemia
    /\ TypesSince(Last(timestamp)) = <<"hyperglycemia">>

\* C2: every step adds at most one alert to the alerts table, keeps the
\* rows already there as they are, and adds one only in
\* log_glucose_measurement or log_symptoms.
C2_AtMostOneAlertPerEvent ==
    [][ /\ Len(alerts') >= Len(alerts)
        /\ Len(alerts') <= Len(alerts) + 1
        /\ SubSeq(alerts', 1, Len(alerts)) = alerts
        /\ (alerts' # alerts =>
              ret'.op \in {"log_glucose_measurement", "log_symptoms"}) ]_vars

\* An insulin dose and a report followed an alert, which is still there.
C2_Witness ==
    /\ Len(alerts) = 1
    /\ Len(insulin_dose) = 1
    /\ insulin_doses[1].timestamp > alerts[1].timestamp
    /\ ret.op = "generate_diabetes_report"

\* C3: every alert has the severity of its type: Medium for Hyperglycemia,
\* High for the four others.
C3_SeverityByType ==
    \A i \in 1..Len(alerts) :
        alerts[i].severity =
            IF alerts[i].alert_type = "hyperglycemia" THEN "medium" ELSE "high"

\* C4: a symptom report of severity 1..10 that was handled to its end
\* raised an alert iff severity >= hypo_symptoms_severity, of type
\* HypoSymptoms for a hypo report and HyperSymptoms for a hyper report.
C4_SymptomAlert ==
    (ret.op = "log_symptoms" /\ ret.status = "ok"
        /\ ret.severity \in 1..10) =>
    LET raised == TypesSince(Last(events).time)
    IN  IF ret.severity >= config.hypo_symptoms_severity
        THEN raised = << IF ret.symptom_type = "hypo"
                         THEN "hypo_symptoms" ELSE "hyper_symptoms" >>
        ELSE raised = <<>>

\* A hyper report exactly at the threshold raised HyperSymptoms.
C4_Witness ==
    /\ ret.op = "log_symptoms" /\ ret.status = "ok"
    /\ ret.symptom_type = "hyper"
    /\ ret.severity = config.hypo_symptoms_severity
    /\ TypesSince(Last(events).time) = <<"hyper_symptoms">>

\* C5: a symptom report of severity outside 1..10 is rejected with
\* InvalidInput and leaves no trace: no such severity is in hypo_symptoms
\* or hyper_symptoms and no symptom alert carries one.
C5_OutOfRangeRejected ==
    /\ \A i \in 1..Len(hypo_symptoms) : hypo_symptoms[i] \in 1..10
    /\ \A i \in 1..Len(hyper_symptoms) : hyper_symptoms[i] \in 1..10
    /\ \A i \in 1..Len(alerts) :
          alerts[i].alert_type \notin GlucoseAlertTypes =>
              alerts[i].message \in 1..10
    /\ (ret.op = "log_symptoms" /\ ret.severity \notin 1..10) =>
          ret.status = "InvalidInput"

\* The five-way classification of a difference d, as the claim words it.
FiveWay(d) ==
    CASE d > 1500 -> "StrongUp"
      [] 500 < d /\ d <= 1500 -> "Up"
      [] d < -1500 -> "StrongDown"
      [] -1500 <= d /\ d < -500 -> "Down"
      [] -500 <= d /\ d <= 500 -> "Stable"

\* C6: the trend given to a new value is the five-way classification of
\* d = current - previous with strict inequalities, and Stable when there
\* is no previous reading.
C6_TrendFiveWay ==
    ret.op = "log_glucose_measurement" =>
    LET n == Len(blood_glucose)
    IN  Last(glucose_trend) =
          IF n = 1 THEN "Stable"
          ELSE FiveWay(ret.glucose_value - blood_glucose[n - 1])

\* A value exactly 15 above the previous reading was labelled Up.
C6_Witness ==
    /\ ret.op = "log_glucose_measurement"
    /\ Len(blood_glucose) >= 2
    /\ ret.glucose_value - blood_glucose[Len(blood_glucose) - 1] = 1500
    /\ Last(glucose_trend) = "Up"

\* C7: every recorded trend is the classification of its recorded value
\* against the recorded value before it, and Stable for the first.
C7_TrendOfRecordedValues ==
    \A i \in 1..Len(blood_glucose) :
        glucose_trend[i] =
          IF i = 1 THEN "Stable"
          ELSE FiveWay(blood_glucose[i] - blood_glucose[i - 1])

\* C8: predict_glucose_trend answers "insufficient", with no line and
\* without raising, exactly when fewer than window_size readings are
\* recorded; otherwise its answer is the forecast of the last window_size
\* readings alone.
C8_WindowOnly ==
    ret.op = "predict_glucose_trend" =>
    /\ ret.status = "ok"
    /\ (ret.out.status = "insufficient")
         <=> (Len(blood_glucose) < config.window_size)
    /\ ret.out.status = "insufficient" => ret.out.lines = <<>>
    /\ Len(blood_glucose) >= config.window_size =>
         ret.out = PredictGlucoseTrend(
                       LastN(blood_glucose, config.window_size),
                       config, ret.hours)

\* A forecast was made with a reading older than the window on record, one
\* that the line through all the readings would have turned into a breach.
C8_Witness ==
    /\ ret.op = "predict_glucose_trend"
    /\ Len(blood_glucose) > config.window_size
    /\ blood_glucose[1] > Last(blood_glucose)
    /\ ret.out.status = "no_anomaly"

\* The window is an arithmetic progression.
IsProgression(w) ==
    /\ Len(w) >= 2
    /\ \A i \in 2..Len(w) : w[i] - w[i - 1] = w[2] - w[1]

\* What the claim expects for step k of a progression: a line iff
\* last + k*d is below hypo or above severeHyper.
ExpectedLines(w, hours, thresholds) ==
    LET F(k) == Last(w) + k * (w[2] - w[1])
        all  == [k \in 1..hours |-> <<k, F(k)>>]
    IN  SelectSeq(all, LAMBDA x :
            \/ x[2] < thresholds.hypoglycemia
            \/ x[2] > thresholds.severe_hyperglycemia)

\* C9: on a window that is an arithmetic progression of step d, the
\* forecast k hours ahead is last + k*d, and the answer holds one line per
\* step k whose forecast is below hypo or above severeHyper, labelled k, in
\* increasing k; it is "no_anomaly" iff no step breaches.
C9_ProgressionForecast ==
    (ret.op = "predict_glucose_trend"
        /\ Len(blood_glucose) >= config.window_size
        /\ IsProgression(LastN(blood_glucose, config.window_size))) =>
    LET w        == LastN(blood_glucose, config.window_size)
        expected == ExpectedLines(w, ret.hours, config)
        lines    == ret.out.lines
    IN  /\ \A k \in 1..ret.hours :
              LET p == Predictions(w, ret.hours)[k]
              IN  p[1] = (Last(w) + k * (w[2] - w[1])) * p[2]
        /\ [i \in 1..Len(lines) |-> <<lines[i].hours, lines[i].pred>>]
             = expected
        /\ (ret.out.status = "no_anomaly") <=> (expected = <<>>)
        /\ (ret.out.status = "alerts") <=> (expected # <<>>)

\* A progression whose forecast crosses severeHyper on the way: steps 1
\* and 2 do not breach (step 2 is exactly at the threshold), 3 and 4 do.
C9_Witness ==
    /\ ret.op = "predict_glucose_trend"
    /\ Len(blood_glucose) >= config.window_size
    /\ IsProgression(LastN(blood_glucose, config.window_size))
    /\ Len(ret.out.lines) = 2
    /\ ret.out.lines[1].hours = 3
    /\ ret.out.lines[2].hours = 4

\* The event that was being handled at time t: the last one taken in
\* before t (0 if none).
TriggerOf(t) ==
    LET before == {i \in 1..Len(events) : events[i].time < t}
    IN  IF before = {} THEN 0
        ELSE CHOOSE i \in before : \A j \in before : j <= i

\* The alert row is one that the event can have raised.
RaisedBy(e, a) ==
    /\ a.message = e.value
    /\ IF e.kind = "glucose" THEN a.alert_type \in GlucoseAlertTypes
       ELSE IF e.kind = "hypo" THEN a.alert_type = "hypo_symptoms"
       ELSE a.alert_type = "hyper_symptoms"

\* C10: the alerts are in the table, and the e-mails in the outbox, in the
\* order of the events that raised them: each alert was written while its
\* own event was being handled, before the next event was taken in, and
\* alerts of later events come later.
C10_AlertsInEventOrder ==
    /\ \A i \in 1..Len(alerts) :
          /\ TriggerOf(alerts[i].timestamp) # 0
          /\ RaisedBy(events[TriggerOf(alerts[i].timestamp)], alerts[i])
    /\ \A i, j \in 1..Len(alerts) :
          i < j => TriggerOf(alerts[i].timestamp)
                     < TriggerOf(alerts[j].timestamp)
    /\ \A i \in 1..Len(sent) : \E k \in 1..Len(alerts) : sent[i] = alerts[k]
    /\ \A i, j \in 1..Len(sent) :
          i < j => TriggerOf(sent[i].timestamp) < TriggerOf(sent[j].timestamp)

\* A reading and then a symptom report each raised an alert, and both
\* alerts were mailed.
C10_Witness ==
    /\ Len(alerts) = 2
    /\ Len(sent) = 2
    /\ alerts[1].alert_type \in GlucoseAlertTypes
    /\ alerts[2].alert_type \notin GlucoseAlertTypes
    /\ sent = alerts

\* C11: when the INSERT fails in log_glucose_measurement, log_insulin_dose
\* or log_meal, the caller gets the storage error and the entry is in the
\* session's in-memory data all the same.
C11_EntryKeptOnStorageError ==
    [][ (ret'.status = "StorageError") =>
          CASE ret'.op = "log_glucose_measurement" ->
                 blood_glucose' = Append(blood_glucose, ret'.out[1])
            [] ret'.op = "log_insulin_dose" ->
                 Len(insulin_dose') = Len(insulin_dose) + 1
            [] ret'.op = "log_meal" ->
                 Len(carbs_intake') = Len(carbs_intake) + 1
            [] OTHER -> TRUE ]_vars

\* An alert row whose e-mail was attempted and not delivered.
Undelivered(rows, mails) ==
    {i \in 1..Len(rows) : \A k \in 1..Len(mails) : mails[k] # rows[i]}

\* C12: an alert is in the alerts table before its e-mail is attempted; a
\* failed delivery leaves the rows of the table as they are, gives the
\* caller no error, and later events are still evaluated and alerted.
C12_DeliveryFailureHarmless ==
    [][ /\ Len(alerts') >= Len(alerts)
        /\ SubSeq(alerts', 1, Len(alerts)) = alerts
        /\ \A k \in 1..Len(sent') :
              \E i \in 1..Len(alerts') : alerts'[i] = sent'[k]
        /\ (config.email = "configured" /\ Len(alerts') > Len(alerts)
               /\ sent' = sent) => ret'.status = "ok"
        /\ (config.email = "configured" /\ Undelivered(alerts, sent) # {}
               /\ ret'.status = "ok") =>
              /\ (ret'.op = "log_glucose_measurement"
                    /\ ret'.out[1] < config.hypoglycemia) =>
                     /\ Len(alerts') = Len(alerts) + 1
                     /\ Last(alerts').alert_type = "hypoglycemia"
              /\ (ret'.op = "log_symptoms"
                    /\ ret'.severity >= config.hypo_symptoms_severity) =>
                     /\ Len(alerts') = Len(alerts) + 1
                     /\ Last(alerts').message = ret'.severity ]_vars

\* The e-mail of a first alert was not delivered; a later event raised a
\* second alert, which was mailed.
C12_Witness ==
    /\ config.email = "configured"
    /\ Len(alerts) = 2
    /\ sent = << alerts[2] >>
    /\ ret.status = "ok"

\* C13: a configuration that lacks a required threshold never gets as far
\* as a session: no reading or symptom report is ever taken in and
\* evaluated against it.
C13_FailFastOnMissingThreshold ==
    (\E key \in RequiredThresholds : ~Has(config, key)) =>
        /\ events = <<>>
        /\ ret.op = "__init__"

\* The number of rows of the alerts table of a type.
CountAlerts(alert_type) ==
    Len(SelectSeq(alerts, LAMBDA a : a.alert_type = alert_type))

\* C14: with hypo < hyper < severeHyper and no storage failure, a report
\* whose window holds every reading of the session counts as many hypo
\* episodes as there are Hypoglycemia alerts, as many severe episodes as
\* SevereHyperglycemia alerts, and as many hyper episodes as Hyperglycemia
\* and SevereHyperglycemia alerts together.
C14_ReportAgreesWithAlerts ==
    (ret.op = "generate_diabetes_report" /\ ret.status = "ok"
        /\ Ordered(config)
        /\ ret.out.status = "report"
        /\ ret.out.mean_glucose[2] = Len(blood_glucose)) =>
    /\ ret.out.hypo_episodes = CountAlerts("hypoglycemia")
    /\ ret.out.severe_hyper_episodes = CountAlerts("severe_hyperglycemia")
    /\ ret.out.hyper_episodes =
         CountAlerts("hyperglycemia") + CountAlerts("severe_hyperglycemia")
    /\ ret.out.severe_hyper_episodes <= ret.out.hyper_episodes

\* A report over a hypo, a hyper and a severe reading.
C14_Witness ==
    /\ ret.op = "generate_diabetes_report" /\ ret.status = "ok"
    /\ Ordered(config)
    /\ ret.out.status = "report"
    /\ ret.out.mean_glucose[2] = Len(blood_glucose)
    /\ ret.out.hypo_episodes = 1
    /\ ret.out.severe_hyper_episodes = 1
    /\ ret.out.hyper_episodes = 2

=============================================================================
